---- MODULE Spec2Model ----
(***************************************************************************)
(* Model of the reference implementation's interfaces:                     *)
(*   chunkers.py   FixedSizeChunker, RecursiveChunker                      *)
(*   retrievers.py InMemoryRetriever, RerankedRetriever                    *)
(*                                                                         *)
(* A Python str is a sequence of one-character strings; a Python dict is   *)
(* a sequence of [k, v] entries in insertion order; None is the value      *)
(* None below.                                                             *)
(***************************************************************************)
EXTENDS Integers, Sequences, FiniteSets, TLC

\* ------------------------------------------------------------------ bounds
MaxTextLen == 4
MinChunkSize == 0 - 1
MaxChunkSize == 4
MinOverlap == 0 - 1
MaxOverlap == 2
MaxChunks == 2 * MaxTextLen

\* ------------------------------------------------------- Python primitives
None == "<None>"

Min(a, b) == IF a < b THEN a ELSE b

Max(a, b) == IF a < b THEN b ELSE a

\* ceil(a / b) for b > 0
CeilDiv(a, b) == 0 - ((0 - a) \div b)

\* s[a:b] of a Python sequence: negative indices count from the end, both
\* ends are clamped to the sequence.
PySlice(s, a, b) ==
  LET n == Len(s)
      lo == IF a < 0 THEN Max(a + n, 0) ELSE Min(a, n)
      hi == IF b < 0 THEN Max(b + n, 0) ELSE Min(b, n)
  IN IF lo < hi THEN SubSeq(s, lo + 1, hi) ELSE <<>>

\* range(0, stop, step) as a sequence; step = 0 is the caller's error case.
PyRange0(stop, step) ==
  IF step <= 0 \/ stop <= 0 THEN <<>>
  ELSE [k \in 1..CeilDiv(stop, step) |-> (k - 1) * step]

\* list.reverse()
Reverse(s) == [i \in 1..Len(s) |-> s[Len(s) + 1 - i]]

\* {**a, **b}: the keys of both, b's value where both have the key.
DictMerge(a, b) ==
  [k \in (DOMAIN a) \cup (DOMAIN b) |-> IF k \in DOMAIN b THEN b[k] ELSE a[k]]

RECURSIVE SplitFrom(_, _, _, _, _)
SplitFrom(text, sep, i, cur, acc) ==
  IF i > Len(text) THEN Append(acc, cur)
  ELSE IF i + Len(sep) - 1 <= Len(text) /\ SubSeq(text, i, i + Len(sep) - 1) = sep
       THEN SplitFrom(text, sep, i + Len(sep), <<>>, Append(acc, cur))
       ELSE SplitFrom(text, sep, i + 1, Append(cur, text[i]), acc)

\* str.split(sep) for a non-empty separator.
Split(text, sep) == SplitFrom(text, sep, 1, <<>>, <<>>)

\* ----------------------------------------------------------------- inputs
Alphabet == {"a", "b", " "}

ScenarioText == <<"A", ".", " ", "B", ".", " ", "C", ".">>

Texts == UNION {[1..n -> Alphabet] : n \in 0..MaxTextLen} \cup {ScenarioText}

DocMetas ==
  { [source |-> 0, loaded_at |-> 0],
    [source |-> 0, loaded_at |-> 0, start_char |-> 99] }

Documents == [id : {"d1"}, text : Texts, metadata : DocMetas]

DefaultSeparators == << <<"\n", "\n">>, <<"\n">>, <<".", " ">>, <<" ">>, <<>> >>

SeparatorLists ==
  { <<>>, << <<" ">>, <<>> >>, << <<" ">> >>, << <<"b">>, <<" ">>, <<>> >> }

\* ------------------------------------------------------------------ state
VARIABLES
  chunker,      \* "fixed" | "recursive": the class of the chunker object
  chunk_size,   \* self.chunk_size
  overlap,      \* self.overlap
  separators,   \* self.separators (RecursiveChunker)
  document,     \* the argument of chunk()
  start,        \* FixedSizeChunker.chunk: local start
  position,     \* FixedSizeChunker.chunk: local position
  chunks,       \* the chunk list built / returned by chunk()
  pc,           \* "ready" | "loop" | "done" | "error"
  retriever,    \* the class of the retriever object the calls are made on
  k_multiplier, \* RerankedRetriever.k_multiplier (0 where the class has none)
  idx_chunks,   \* InMemoryRetriever.chunks (of the base store, under a wrapper)
  idx_embeddings, \* InMemoryRetriever.embeddings
  call,         \* the last call made on the retriever, with its arguments
  pre,          \* the store's two dicts as they were when that call began
  raised,       \* the exception that call raised, or "none"
  result,       \* the list the last search returned
  outgoing,     \* the calls the last search made on base store and reranker
  latest,       \* per chunk id, the last (chunk, vector) written and not deleted
  direct,       \* an InMemoryRetriever that received the same calls directly
  evaluator,    \* the class of the evaluator object
  evaluators,   \* CompositeEvaluator.evaluators
  weights,      \* CompositeEvaluator.weights
  ev_call,      \* the last call made on the evaluator, with its arguments
  ev_pc,        \* LLMEvaluator.evaluate: the step it is at
  response,     \* the text self.llm.generate returned last
  metrics,      \* LLMEvaluator.evaluate: local metrics
  ev_raised,    \* the exception the last evaluator call raised, or "none"
  evaluation,   \* what the last evaluator call returned
  embedder,     \* the class of the embedder object
  cache,        \* CachedEmbedder.cache
  em_call,      \* the last call made on the embedder, with its arguments
  em_pre,       \* the cache as it was when that call began
  base_calls,   \* the calls that call made on base_embedder
  embedded      \* what the last embedder call returned

chunkerVars ==
  <<chunker, chunk_size, overlap, separators, document, start, position, chunks, pc>>

retrieverVars ==
  <<retriever, k_multiplier, idx_chunks, idx_embeddings, call, pre, raised, result,
    outgoing, latest, direct>>

evaluatorVars ==
  <<evaluator, evaluators, weights, ev_call, ev_pc, response, metrics, ev_raised,
    evaluation>>

embedderVars == <<embedder, cache, em_call, em_pre, base_calls, embedded>>

vars == <<chunkerVars, retrieverVars, evaluatorVars, embedderVars>>

\* the evaluator part of the state while no evaluator is exercised
EvaluatorIdle ==
  /\ evaluator = "none"
  /\ evaluators = <<>>
  /\ weights = <<>>
  /\ ev_call = [op |-> "none"]
  /\ ev_pc = "ready"
  /\ response = <<>>
  /\ metrics = <<>>
  /\ ev_raised = "none"
  /\ evaluation = <<>>

\* the embedder part of the state while no embedder is exercised
EmbedderIdle ==
  /\ embedder = "none"
  /\ cache = <<>>
  /\ em_call = [op |-> "none"]
  /\ em_pre = <<>>
  /\ base_calls = <<>>
  /\ embedded = <<>>

\* the retriever part of the state while only a chunker is exercised
RetrieverIdle ==
  /\ retriever = "none"
  /\ k_multiplier = 0
  /\ outgoing = <<>>
  /\ idx_chunks = <<>>
  /\ idx_embeddings = <<>>
  /\ call = [op |-> "none"]
  /\ pre = [chunks |-> <<>>, embeddings |-> <<>>]
  /\ raised = "none"
  /\ result = <<>>
  /\ latest = <<>>
  /\ direct = [chunks |-> <<>>, embeddings |-> <<>>]

\* the chunker part of the state while only a retriever is exercised
ChunkerIdle ==
  /\ chunker = "none"
  /\ chunk_size = 0
  /\ overlap = 0
  /\ separators = <<>>
  /\ document = [id |-> "d1", text |-> <<>>, metadata |-> <<>>]
  /\ start = 0
  /\ position = 0
  /\ chunks = <<>>
  /\ pc = "ready"

\* --------------------------------------------------------------- chunkers
\* mutant: chunk ids numbered from 1
ChunkId_OneBased(doc_id, i) == doc_id \o "_chunk_" \o ToString(i + 1)

\* f"{document.id}_chunk_{position}"
ChunkId(doc_id, i) == doc_id \o "_chunk_" \o ToString(i)

\* FixedSizeChunker.__init__ / RecursiveChunker.__init__: the fields are
\* stored as given; `separators or [...]` replaces None and [] by the default.
InitSeparators(seps) == IF seps = <<>> THEN DefaultSeparators ELSE seps

ChunkerInit ==
  /\ chunker \in {"fixed", "recursive"}
  /\ chunk_size \in MinChunkSize..MaxChunkSize
  /\ overlap \in MinOverlap..MaxOverlap
  /\ \E seps \in SeparatorLists :
       separators = IF chunker = "recursive" THEN InitSeparators(seps) ELSE <<>>
  /\ document \in Documents
  /\ start = 0
  /\ position = 0
  /\ chunks = <<>>
  /\ pc = "ready"
  /\ RetrieverIdle
  /\ EvaluatorIdle
  /\ EmbedderIdle

\* the window end of one iteration
WindowEnd(s) == s + chunk_size

\* mutant: the next window starts where this one ends (overlap forgotten)
NextStart_NoOverlap(end) == end

\* start = end - self.overlap
NextStart(end) == end - overlap

\* mutant: the slice stops one character short
WindowText_ShortByOne(text, s, end) == PySlice(text, s, end - 1)

\* chunk_text = text[start:end]
WindowText(text, s, end) == PySlice(text, s, end)

FixedChunk(doc, s, pos) ==
  LET end == WindowEnd(s)
      chunk_text == WindowText(doc.text, s, end)
  IN [ id |-> ChunkId(doc.id, pos),
       document_id |-> doc.id,
       text |-> chunk_text,
       metadata |-> DictMerge(doc.metadata,
                              [chunk_size |-> Len(chunk_text),
                               start_char |-> s,
                               end_char |-> end]),
       position |-> pos ]

\* FixedSizeChunker.chunk: entry
FixedChunkCall ==
  /\ chunker = "fixed" /\ pc = "ready"
  /\ chunks' = <<>>
  /\ start' = 0
  /\ position' = 0
  /\ pc' = "loop"
  /\ UNCHANGED <<chunker, chunk_size, overlap, separators, document>>
  /\ UNCHANGED <<retrieverVars, evaluatorVars, embedderVars>>

\* one iteration of `while start < len(text)`
FixedLoopBody ==
  /\ chunker = "fixed" /\ pc = "loop"
  /\ start < Len(document.text)
  /\ Len(chunks) < MaxChunks
  /\ chunks' = Append(chunks, FixedChunk(document, start, position))
  /\ start' = NextStart(WindowEnd(start))
  /\ position' = position + 1
  /\ UNCHANGED <<chunker, chunk_size, overlap, separators, document, pc>>
  /\ UNCHANGED <<retrieverVars, evaluatorVars, embedderVars>>

\* the loop condition fails: return chunks
FixedReturn ==
  /\ chunker = "fixed" /\ pc = "loop"
  /\ ~(start < Len(document.text))
  /\ pc' = "done"
  /\ UNCHANGED <<chunker, chunk_size, overlap, separators, document, start, position, chunks>>
  /\ UNCHANGED <<retrieverVars, evaluatorVars, embedderVars>>

\* A call's outcome: the list it returns, or the exception it raises.
Returned(list) == [err |-> "none", out |-> list]

Raised(e) == [err |-> e, out |-> <<>>]

\* the step of _hard_split's range()
HardStep == chunk_size - overlap

\* RecursiveChunker._hard_split: range() raises ValueError on a zero step.
HardSplit(text) ==
  IF HardStep = 0 THEN Raised("ValueError")
  ELSE LET starts == PyRange0(Len(text), HardStep)
       IN Returned([k \in 1..Len(starts) |->
                      PySlice(text, starts[k], starts[k] + chunk_size)])

\* `len(candidate) <= self.chunk_size`
Fits(candidate) == Len(candidate) <= chunk_size

\* `if not separators: return [text]`
NoSeparators(text) == Returned(<<text>>)

\* mutant: the sub-chunks put before the chunks collected so far
Extend_Front(acc, more) == more \o acc

\* chunks.extend(...)
Extend(acc, more) == acc \o more

RECURSIVE RecursiveSplit(_, _)
RECURSIVE SplitLoop(_, _, _, _, _, _)

\* the `for part in parts` loop of _recursive_split, from parts[i] on, with
\* the locals chunks (acc) and current
SplitLoop(parts, i, separator, remaining, acc, current) ==
  IF i > Len(parts) THEN
    Returned(IF current # <<>> THEN Append(acc, current) ELSE acc)
  ELSE
    LET part == parts[i]
        candidate == current \o (IF current # <<>> THEN separator ELSE <<>>) \o part
    IN IF Fits(candidate) THEN
         SplitLoop(parts, i + 1, separator, remaining, acc, candidate)
       ELSE
         LET acc1 == IF current # <<>> THEN Append(acc, current) ELSE acc
         IN IF Len(part) > chunk_size THEN
              LET sub == RecursiveSplit(part, remaining)
              IN IF sub.err # "none" THEN sub
                 ELSE SplitLoop(parts, i + 1, separator, remaining, Extend(acc1, sub.out), <<>>)
            ELSE SplitLoop(parts, i + 1, separator, remaining, acc1, part)

\* RecursiveChunker._recursive_split
RecursiveSplit(text, seps) ==
  IF seps = <<>> THEN NoSeparators(text)
  ELSE LET separator == Head(seps)
           remaining == Tail(seps)
       IN IF separator = <<>> THEN HardSplit(text)
          ELSE SplitLoop(Split(text, separator), 1, separator, remaining, <<>>, <<>>)

RecursiveChunkOf(doc, i, chunk_text) ==
  [ id |-> ChunkId(doc.id, i),
    document_id |-> doc.id,
    text |-> chunk_text,
    metadata |-> doc.metadata,
    position |-> i ]

\* RecursiveChunker.chunk: the whole call
RecursiveChunk ==
  /\ chunker = "recursive" /\ pc = "ready"
  /\ LET r == RecursiveSplit(document.text, separators)
     IN IF r.err # "none"
        THEN /\ pc' = "error"
             /\ chunks' = <<>>
        ELSE /\ pc' = "done"
             /\ chunks' = [k \in 1..Len(r.out) |-> RecursiveChunkOf(document, k - 1, r.out[k])]
  /\ UNCHANGED <<chunker, chunk_size, overlap, separators, document, start, position>>
  /\ UNCHANGED <<retrieverVars, evaluatorVars, embedderVars>>

ChunkerNext == FixedChunkCall \/ FixedLoopBody \/ FixedReturn \/ RecursiveChunk

SpecChunker == ChunkerInit /\ [][ChunkerNext]_vars

\* ------------------------------------------------------------- retrievers
MaxTopK == 2

ChunkIds == {ChunkId("d1", 0), ChunkId("d1", 1)}

\* the empty dict; also stands for filters=None, which search treats alike
EmptyDict == <<>>

ChunkMetas == {EmptyDict, [lang |-> "en"], [lang |-> "fr"]}

StoredChunks ==
  [id : ChunkIds, document_id : {"d1"}, text : {<<"a">>}, metadata : ChunkMetas,
   position : {0}]

\* Embeddings with an integral Euclidean norm, so that every score below is an
\* exact rational; <<1>> has another length than the rest.
Vectors == {<<1, 0>>, <<3, 4>>, <<0, 0>>, <<1>>}

Queries == {<<1, 0>>, <<3, 4>>, <<0, 0>>}

\* what is written through a RerankedRetriever: chunk 0 with text "a", chunk 1
\* with text "b", the latter with or without a language
WrappedChunks ==
  {[id |-> ChunkId("d1", 0), document_id |-> "d1", text |-> <<"a">>,
    metadata |-> EmptyDict, position |-> 0]}
  \cup [id : {ChunkId("d1", 1)}, document_id : {"d1"}, text : {<<"b">>},
        metadata : {EmptyDict, [lang |-> "en"]}, position : {1}]

WrappedVectors == {<<1, 0>>, <<0, 1>>}

\* the arguments of index and update, by the class of the receiver
ChunkArgs == IF retriever = "RerankedRetriever" THEN WrappedChunks ELSE StoredChunks

VectorArgs == IF retriever = "RerankedRetriever" THEN WrappedVectors ELSE Vectors

FilterSets ==
  {EmptyDict, [lang |-> "en"], [lang |-> None], [lang |-> "en", kind |-> "x"]}

\* ---- dict, in insertion order
DictKeys(d) == {d[i].k : i \in 1..Len(d)}

DictHas(d, key) == key \in DictKeys(d)

DictGet(d, key) == d[CHOOSE i \in 1..Len(d) : d[i].k = key].v

\* mutant: an assignment always appends a new entry
DictSet_Append(d, key, value) == Append(d, [k |-> key, v |-> value])

\* d[key] = value: an existing key keeps its place, a new one goes last
DictSet(d, key, value) ==
  IF DictHas(d, key)
  THEN [i \in 1..Len(d) |-> IF d[i].k = key THEN [k |-> key, v |-> value] ELSE d[i]]
  ELSE Append(d, [k |-> key, v |-> value])

\* mutant: popitem(), which removes the entry inserted last
DictPop_Last(d, key) == IF d = <<>> THEN d ELSE SubSeq(d, 1, Len(d) - 1)

\* d.pop(key, None)
DictPop(d, key) == SelectSeq(d, LAMBDA e : e.k # key)

\* dict.get(key): None for a missing key
MetaGet(metadata, key) == IF key \in DOMAIN metadata THEN metadata[key] ELSE None

\* ---- scores: a float is the exact rational num/den in lowest terms, NaN is 0/0
NaN == [num |-> 0, den |-> 0]

IsNaN(x) == x.den = 0

Abs(n) == IF n < 0 THEN 0 - n ELSE n

RECURSIVE GCD(_, _)
GCD(a, b) == IF b = 0 THEN a ELSE GCD(b, a % b)

\* a / b in float arithmetic: 0/0 is nan (numpy warns and goes on)
Divide(a, b) ==
  IF b = 0 THEN NaN
  ELSE LET g == GCD(Abs(a), Abs(b)) IN [num |-> a \div g, den |-> b \div g]

\* x < y on floats: every comparison with nan is false
ScoreLt(x, y) == ~IsNaN(x) /\ ~IsNaN(y) /\ x.num * y.den < y.num * x.den

RECURSIVE DotFrom(_, _, _)
DotFrom(u, v, i) == IF i > Len(u) THEN 0 ELSE u[i] * v[i] + DotFrom(u, v, i + 1)

\* np.dot on two 1-d arrays of one length
Dot(u, v) == DotFrom(u, v, 1)

\* np.linalg.norm
Norm(v) == LET n2 == Dot(v, v) IN CHOOSE r \in 0..n2 : r * r = n2

\* the cosine similarity of search
Similarity(query_vec, doc_vec) ==
  Divide(Dot(query_vec, doc_vec), Norm(query_vec) * Norm(doc_vec))

\* ---- list.sort(key=..., reverse=True) on fewer than 64 items: reverse, find
\* the initial run, binary insertion of the rest, reverse again.
KeyLt(a, b) == ScoreLt(a.score, b.score)

\* count_run: the length of the initial run and whether it is descending
CountRun(a) ==
  IF Len(a) = 1 THEN [n |-> 1, descending |-> FALSE]
  ELSE LET desc == KeyLt(a[2], a[1])
           brk == {i \in 3..Len(a) : KeyLt(a[i], a[i - 1]) # desc}
       IN [n |-> IF brk = {} THEN Len(a)
                 ELSE (CHOOSE i \in brk : \A j \in brk : i <= j) - 1,
           descending |-> desc]

RECURSIVE BinarySearch(_, _, _, _)
BinarySearch(a, pivot, l, r) ==
  IF l >= r THEN l
  ELSE LET p == l + ((r - l) \div 2)
       IN IF KeyLt(pivot, a[p + 1]) THEN BinarySearch(a, pivot, l, p)
          ELSE BinarySearch(a, pivot, p + 1, r)

RECURSIVE BinarySort(_, _)
\* binarysort: a[1..sorted] is sorted; insert the rest one by one
BinarySort(a, sorted) ==
  IF sorted >= Len(a) THEN a
  ELSE LET pivot == a[sorted + 1]
           l == BinarySearch(a, pivot, 0, sorted)
       IN BinarySort(SubSeq(a, 1, l) \o <<pivot>> \o SubSeq(a, l + 1, sorted)
                       \o SubSeq(a, sorted + 2, Len(a)),
                     sorted + 1)

\* mutant: ascending order
SortByScoreDesc_Ascending(scores) ==
  IF Len(scores) < 2 THEN scores
  ELSE LET run == CountRun(scores)
           a == IF run.descending
                THEN Reverse(SubSeq(scores, 1, run.n)) \o SubSeq(scores, run.n + 1, Len(scores))
                ELSE scores
       IN BinarySort(a, run.n)

\* scores.sort(key=lambda x: x[1], reverse=True)
SortByScoreDesc(scores) ==
  IF Len(scores) < 2 THEN scores
  ELSE LET rev == Reverse(scores)
           run == CountRun(rev)
           a == IF run.descending
                THEN Reverse(SubSeq(rev, 1, run.n)) \o SubSeq(rev, run.n + 1, Len(rev))
                ELSE rev
       IN Reverse(BinarySort(a, run.n))

\* ---- InMemoryRetriever
\* mutant: a missing key is taken to match
MatchesFilters_IgnoreMissing(chunk, filters) ==
  \A key \in (DOMAIN filters) \cap (DOMAIN chunk.metadata) :
    chunk.metadata[key] = filters[key]

\* InMemoryRetriever._matches_filters
MatchesFilters(chunk, filters) ==
  \A key \in DOMAIN filters : MetaGet(chunk.metadata, key) = filters[key]

\* `if filters and not self._matches_filters(chunk, filters): continue`
Skipped(chunk, filters) == filters # EmptyDict /\ ~MatchesFilters(chunk, filters)

\* the entries of self.embeddings the loop of search scores, in dict order
Scanned(store, filters) ==
  SelectSeq(store.embeddings,
            LAMBDA e : ~Skipped(DictGet(store.chunks, e.k), filters))

\* scores[:top_k]
Truncate(scores, top_k) == PySlice(scores, 0, top_k)

\* InMemoryRetriever.search: np.dot raises ValueError on arrays of two lengths
InMemorySearch(store, query_embedding, top_k, filters) ==
  LET scanned == Scanned(store, filters)
  IN IF \E i \in 1..Len(scanned) : Len(scanned[i].v) # Len(query_embedding)
     THEN Raised("ValueError")
     ELSE LET scores == [i \in 1..Len(scanned) |->
                           [chunk |-> DictGet(store.chunks, scanned[i].k),
                            score |-> Similarity(query_embedding, scanned[i].v)]]
              top == Truncate(SortByScoreDesc(scores), top_k)
          IN Returned([i \in 1..Len(top) |->
                         [chunk |-> top[i].chunk, score |-> top[i].score, rank |-> i]])

\* InMemoryRetriever.index
InMemoryIndex(store, chunk, embedding) ==
  [chunks |-> DictSet(store.chunks, chunk.id, chunk),
   embeddings |-> DictSet(store.embeddings, chunk.id, embedding)]

\* InMemoryRetriever.delete
InMemoryDelete(store, chunk_id) ==
  [chunks |-> DictPop(store.chunks, chunk_id),
   embeddings |-> DictPop(store.embeddings, chunk_id)]

\* Retriever.update on an InMemoryRetriever: self.delete, then self.index
InMemoryUpdate(store, chunk, embedding) ==
  InMemoryIndex(InMemoryDelete(store, chunk.id), chunk, embedding)

\* the two dicts of the store the calls end up on
Store == [chunks |-> idx_chunks, embeddings |-> idx_embeddings]

\* the history map after a write / after a delete
Written(chunk, embedding) ==
  [i \in (DOMAIN latest) \cup {chunk.id} |->
     IF i = chunk.id THEN [chunk |-> chunk, embedding |-> embedding] ELSE latest[i]]

Forgotten(chunk_id) == [i \in (DOMAIN latest) \ {chunk_id} |-> latest[i]]

RetrieverInit(class, multipliers) ==
  /\ retriever = class
  /\ k_multiplier \in multipliers
  /\ outgoing = <<>>
  /\ idx_chunks = <<>>
  /\ idx_embeddings = <<>>
  /\ call = [op |-> "none"]
  /\ pre = [chunks |-> <<>>, embeddings |-> <<>>]
  /\ raised = "none"
  /\ result = <<>>
  /\ latest = <<>>
  /\ direct = [chunks |-> <<>>, embeddings |-> <<>>]
  /\ ChunkerIdle
  /\ EvaluatorIdle
  /\ EmbedderIdle

\* index(chunk, embedding): InMemoryRetriever.index, or RerankedRetriever.index
\* passing the call to base_retriever.index
Index ==
  \E chunk \in ChunkArgs, embedding \in VectorArgs :
    LET s == InMemoryIndex(Store, chunk, embedding)
    IN /\ retriever \in {"InMemoryRetriever", "RerankedRetriever"}
       /\ idx_chunks' = s.chunks
       /\ idx_embeddings' = s.embeddings
       /\ call' = [op |-> "index", chunk |-> chunk, embedding |-> embedding]
       /\ pre' = Store
       /\ raised' = "none"
       /\ latest' = Written(chunk, embedding)
       /\ direct' = InMemoryIndex(direct, chunk, embedding)
       /\ result' = <<>>
       /\ outgoing' = <<>>
       /\ UNCHANGED <<retriever, k_multiplier>>
       /\ UNCHANGED <<chunkerVars, evaluatorVars, embedderVars>>

\* what delete(chunk_id) does on an object of the class: InMemoryRetriever
\* overrides it, RerankedRetriever inherits Retriever.delete, which raises
DeleteOn(class, store, chunk_id) ==
  IF class = "InMemoryRetriever"
  THEN [raised |-> "none", store |-> InMemoryDelete(store, chunk_id)]
  ELSE [raised |-> "NotImplementedError", store |-> store]

\* mutant: the two calls of update in the other order
UpdateOn_IndexFirst(class, store, chunk, embedding) ==
  DeleteOn(class, InMemoryIndex(store, chunk, embedding), chunk.id)

\* Retriever.update on an object of the class: self.delete(chunk.id), then
\* self.index(chunk, embedding) unless delete raised
UpdateOn(class, store, chunk, embedding) ==
  LET d == DeleteOn(class, store, chunk.id)
  IN IF d.raised # "none" THEN d
     ELSE [raised |-> "none", store |-> InMemoryIndex(d.store, chunk, embedding)]

Delete ==
  \E chunk_id \in ChunkIds :
    LET d == DeleteOn(retriever, Store, chunk_id)
    IN /\ retriever \in {"InMemoryRetriever", "RerankedRetriever"}
       /\ idx_chunks' = d.store.chunks
       /\ idx_embeddings' = d.store.embeddings
       /\ call' = [op |-> "delete", chunk_id |-> chunk_id]
       /\ pre' = Store
       /\ raised' = d.raised
       /\ latest' = Forgotten(chunk_id)
       /\ direct' = InMemoryDelete(direct, chunk_id)
       /\ result' = <<>>
       /\ outgoing' = <<>>
       /\ UNCHANGED <<retriever, k_multiplier>>
       /\ UNCHANGED <<chunkerVars, evaluatorVars, embedderVars>>

Update ==
  \E chunk \in ChunkArgs, embedding \in VectorArgs :
    LET u == UpdateOn(retriever, Store, chunk, embedding)
    IN /\ retriever \in {"InMemoryRetriever", "RerankedRetriever"}
       /\ idx_chunks' = u.store.chunks
       /\ idx_embeddings' = u.store.embeddings
       /\ call' = [op |-> "update", chunk |-> chunk, embedding |-> embedding]
       /\ pre' = Store
       /\ raised' = u.raised
       /\ latest' = Written(chunk, embedding)
       /\ direct' = InMemoryUpdate(direct, chunk, embedding)
       /\ result' = <<>>
       /\ outgoing' = <<>>
       /\ UNCHANGED <<retriever, k_multiplier>>
       /\ UNCHANGED <<chunkerVars, evaluatorVars, embedderVars>>

\* InMemoryRetriever.search(query_embedding, top_k, filters)
Search ==
  \E query_embedding \in Queries, top_k \in 0..MaxTopK, filters \in FilterSets :
    LET r == InMemorySearch(Store, query_embedding, top_k, filters)
    IN /\ retriever = "InMemoryRetriever"
       /\ call' = [op |-> "search", query_embedding |-> query_embedding,
                   top_k |-> top_k, filters |-> filters]
       /\ pre' = Store
       /\ raised' = r.err
       /\ result' = r.out
       /\ outgoing' = <<>>
       /\ UNCHANGED <<retriever, k_multiplier, idx_chunks, idx_embeddings, latest, direct>>
       /\ UNCHANGED <<chunkerVars, evaluatorVars, embedderVars>>

StoreInit == RetrieverInit("InMemoryRetriever", {0})

StoreNext == Index \/ Delete \/ Update \/ Search

SpecStore == StoreInit /\ [][StoreNext]_vars

\* initial_k_multiplier: int = 5
DefaultMultiplier == 5

RerankInit == RetrieverInit("RerankedRetriever", {DefaultMultiplier})

RerankNext == Index \/ Delete \/ Update

SpecRerank == RerankInit /\ [][RerankNext]_vars

\* ---- RerankedRetriever.search
MaxMultiplier == 3

\* query_text: None, the empty string, or a text
QueryTexts == {None, "", "q"}

\* `not query_text`
NoText(query_text) == query_text \in {None, ""}

\* two scores a reranker gives
RerankScores == {[num |-> 9, den |-> 10], [num |-> 1, den |-> 2]}

\* the sequences of length n without a repeated index
DistinctEntries(n, indices) ==
  {e \in [1..n -> indices \X RerankScores] :
     \A i, j \in 1..n : (i # j) => e[i][1] # e[j][1]}

\* what reranker.rerank(query, documents, top_k) can return: up to top_k
\* entries, each the 0-based index of one of the documents with a score, no
\* document twice, in any order
RerankerOutputs(documents, top_k) ==
  UNION {{[i \in 1..n |-> [index |-> e[i][1], score |-> e[i][2]]] :
            e \in DistinctEntries(n, 0..(Len(documents) - 1))} :
         n \in 0..Min(Max(top_k, 0), Len(documents))}

\* top_k * self.k_multiplier
CandidateCount(top_k, multiplier) == top_k * multiplier

\* mutant: the whole candidate list
EarlyReturn_Untruncated(candidates, top_k) == candidates

\* candidates[:top_k]
EarlyReturn(candidates, top_k) == PySlice(candidates, 0, top_k)

\* [c.chunk.text for c in candidates]
CandidateTexts(candidates) == [i \in 1..Len(candidates) |-> candidates[i].chunk.text]

\* mutant: the chunk at the entry's place in the reranker's list
Remap_ByPosition(candidates, reranked) ==
  [i \in 1..Len(reranked) |->
     [chunk |-> candidates[i].chunk, score |-> reranked[i].score, rank |-> i]]

\* the list comprehension over enumerate(reranked)
Remap(candidates, reranked) ==
  [i \in 1..Len(reranked) |->
     [chunk |-> candidates[reranked[i].index + 1].chunk,
      score |-> reranked[i].score, rank |-> i]]

BaseCall(query_embedding, top_k, filters, returned) ==
  [to |-> "base_retriever.search", query_embedding |-> query_embedding,
   top_k |-> top_k, filters |-> filters, returned |-> returned]

RerankCall(query, documents, top_k, returned) ==
  [to |-> "reranker.rerank", query |-> query, documents |-> documents,
   top_k |-> top_k, returned |-> returned]

\* RerankedRetriever.search(query_embedding, top_k, filters, query_text)
RerankedSearch ==
  \E query_embedding \in Queries, top_k \in 0..MaxTopK,
     filters \in {EmptyDict, [lang |-> "en"]}, query_text \in QueryTexts :
    \E base \in {InMemorySearch(Store, query_embedding,
                                CandidateCount(top_k, k_multiplier), filters)} :
      \E asked \in {BaseCall(query_embedding, CandidateCount(top_k, k_multiplier),
                             filters, base)},
         documents \in {CandidateTexts(base.out)} :
        /\ retriever = "RerankedRetriever"
        /\ call' = [op |-> "search", query_embedding |-> query_embedding,
                    top_k |-> top_k, filters |-> filters, query_text |-> query_text]
        /\ pre' = Store
        /\ raised' = base.err
        /\ IF base.err # "none"
           THEN result' = <<>> /\ outgoing' = <<asked>>
           ELSE IF NoText(query_text) \/ base.out = <<>>
           THEN result' = EarlyReturn(base.out, top_k) /\ outgoing' = <<asked>>
           ELSE \E reranked \in RerankerOutputs(documents, top_k) :
                  /\ result' = Remap(base.out, reranked)
                  /\ outgoing' = <<asked, RerankCall(query_text, documents,
                                                     top_k, reranked)>>
        /\ UNCHANGED <<retriever, k_multiplier, idx_chunks, idx_embeddings, latest, direct>>
        /\ UNCHANGED <<chunkerVars, evaluatorVars, embedderVars>>

RerankSearchInit == RetrieverInit("RerankedRetriever", 1..MaxMultiplier)

RerankSearchNext == Index \/ RerankedSearch

SpecRerankSearch == RerankSearchInit /\ [][RerankSearchNext]_vars

\* ------------------------------------------------------------- evaluators
\* ---- Python floats, as exact rationals with a positive denominator
Rat(n, d) ==
  LET g == GCD(Abs(n), Abs(d))
  IN IF d < 0 THEN [num |-> (0 - n) \div g, den |-> (0 - d) \div g]
     ELSE [num |-> n \div g, den |-> d \div g]

\* the float of an int
Float(n) == [num |-> n, den |-> 1]

\* x + y: nan if either is nan
FloatAdd(x, y) ==
  IF IsNaN(x) \/ IsNaN(y) THEN NaN
  ELSE Rat(x.num * y.den + y.num * x.den, x.den * y.den)

\* x * y
FloatMul(x, y) ==
  IF IsNaN(x) \/ IsNaN(y) THEN NaN ELSE Rat(x.num * y.num, x.den * y.den)

\* x / y for y # 0; Python raises ZeroDivisionError on y = 0, which the
\* callers test before
FloatDiv(x, y) ==
  IF IsNaN(x) \/ IsNaN(y) THEN NaN ELSE Rat(x.num * y.den, x.den * y.num)

\* sum(values) of a list of floats, from the left, starting at 0
RECURSIVE FloatSum(_)
FloatSum(values) ==
  IF values = <<>> THEN Float(0)
  ELSE FloatAdd(FloatSum(SubSeq(values, 1, Len(values) - 1)), values[Len(values)])

\* list(d.values())
DictValues(d) == [i \in 1..Len(d) |-> d[i].v]

\* d.update(other)
RECURSIVE DictUpdate(_, _)
DictUpdate(d, other) ==
  IF other = <<>> THEN d
  ELSE DictUpdate(DictSet(d, other[1].k, other[1].v), Tail(other))

\* set(list)
ToSet(list) == {list[i] : i \in 1..Len(list)}

EvaluationResult(query, retrieval_metrics, generation_metrics, overall_score) ==
  [query |-> query, retrieval_metrics |-> retrieval_metrics,
   generation_metrics |-> generation_metrics, overall_score |-> overall_score,
   details |-> EmptyDict]

\* ---- RetrievalEvaluator
MaxRetrieved == 6

MaxK == 7

DocIds == {"c1", "c2"}

\* retrieved-id lists, duplicates included
IdLists == UNION {[1..n -> DocIds] : n \in 0..MaxRetrieved}

\* relevant_doc_ids of a golden example
RelevantLists == {<<>>, <<"c1">>, <<"c2">>, <<"c1", "c2">>, <<"c2", "c2">>}

GoldenExamples ==
  [query : {"q1"}, relevant_doc_ids : RelevantLists, reference_answer : {"ref"},
   metadata : {EmptyDict}]

\* golden=None, as a record so that it compares with a GoldenExample
NoGolden == [none |-> TRUE]

\* golden: Optional[GoldenExample]
Goldens == {NoGolden} \cup GoldenExamples

\* the SearchResult list whose chunks have the ids
Retrieved(ids) ==
  [i \in 1..Len(ids) |-> [chunk |-> [id |-> ids[i]], score |-> Float(1), rank |-> i]]

\* RetrievalEvaluator._recall_at_k
RecallAtK(retrieved_ids, relevant_ids, k) ==
  IF relevant_ids = {} THEN Float(0)
  ELSE LET retrieved_set == ToSet(PySlice(retrieved_ids, 0, k))
       IN Rat(Cardinality(retrieved_set \cap relevant_ids), Cardinality(relevant_ids))

\* RetrievalEvaluator._precision_at_k
PrecisionAtK(retrieved_ids, relevant_ids, k) ==
  IF k = 0 THEN Float(0)
  ELSE LET retrieved_set == ToSet(PySlice(retrieved_ids, 0, k))
       IN Rat(Cardinality(retrieved_set \cap relevant_ids), k)

\* mutant: the reciprocal rank of the last relevant id
Mrr_LastHit(retrieved_ids, relevant_ids) ==
  LET hits == {rank \in 1..Len(retrieved_ids) : retrieved_ids[rank] \in relevant_ids}
  IN IF hits = {} THEN Float(0)
     ELSE Rat(1, CHOOSE rank \in hits : \A other \in hits : rank >= other)

\* RetrievalEvaluator._mrr: the reciprocal rank of the first relevant id
Mrr(retrieved_ids, relevant_ids) ==
  LET hits == {rank \in 1..Len(retrieved_ids) : retrieved_ids[rank] \in relevant_ids}
  IN IF hits = {} THEN Float(0)
     ELSE Rat(1, CHOOSE rank \in hits : \A other \in hits : rank <= other)

\* metrics.get('recall@5', 0.0)
MetricOr(d, key, default) == IF DictHas(d, key) THEN DictGet(d, key) ELSE default

\* RetrievalEvaluator.evaluate
RetrievalEvaluate(query, retrieved, generated_answer, golden) ==
  LET retrieved_ids == [i \in 1..Len(retrieved) |-> retrieved[i].chunk.id]
      computed ==
        IF golden # NoGolden /\ golden.relevant_doc_ids # <<>>
        THEN LET relevant_ids == ToSet(golden.relevant_doc_ids)
             IN << [k |-> "recall@5", v |-> RecallAtK(retrieved_ids, relevant_ids, 5)],
                   [k |-> "recall@10", v |-> RecallAtK(retrieved_ids, relevant_ids, 10)],
                   [k |-> "precision@5", v |-> PrecisionAtK(retrieved_ids, relevant_ids, 5)],
                   [k |-> "mrr", v |-> Mrr(retrieved_ids, relevant_ids)] >>
        ELSE EmptyDict
  IN EvaluationResult(query, computed, EmptyDict, MetricOr(computed, "recall@5", Float(0)))

\* the evaluator part of the state after construction
EvaluatorInit(class) ==
  /\ evaluator = class
  /\ ev_call = [op |-> "none"]
  /\ ev_pc = "ready"
  /\ response = <<>>
  /\ metrics = <<>>
  /\ ev_raised = "none"
  /\ evaluation = <<>>

\* an evaluator call that returns at once. The evaluators keep no state
\* between calls, so one call per behaviour shows all there is to see.
Returns(value) ==
  /\ ev_pc = "ready"
  /\ ev_pc' = "done"
  /\ evaluation' = value
  /\ ev_raised' = "none"
  /\ UNCHANGED <<evaluator, evaluators, weights, response, metrics>>
  /\ UNCHANGED <<chunkerVars, retrieverVars, embedderVars>>

RecallAtKCall ==
  \E retrieved_ids \in IdLists, relevant_ids \in SUBSET DocIds, k \in 0..MaxK :
    /\ evaluator = "RetrievalEvaluator"
    /\ ev_call' = [op |-> "_recall_at_k", retrieved_ids |-> retrieved_ids,
                   relevant_ids |-> relevant_ids, k |-> k]
    /\ Returns(RecallAtK(retrieved_ids, relevant_ids, k))

PrecisionAtKCall ==
  \E retrieved_ids \in IdLists, relevant_ids \in SUBSET DocIds, k \in 0..MaxK :
    /\ evaluator = "RetrievalEvaluator"
    /\ ev_call' = [op |-> "_precision_at_k", retrieved_ids |-> retrieved_ids,
                   relevant_ids |-> relevant_ids, k |-> k]
    /\ Returns(PrecisionAtK(retrieved_ids, relevant_ids, k))

MrrCall ==
  \E retrieved_ids \in IdLists, relevant_ids \in SUBSET DocIds :
    /\ evaluator = "RetrievalEvaluator"
    /\ ev_call' = [op |-> "_mrr", retrieved_ids |-> retrieved_ids,
                   relevant_ids |-> relevant_ids]
    /\ Returns(Mrr(retrieved_ids, relevant_ids))

RetrievalEvaluateCall ==
  \E retrieved_ids \in IdLists, golden \in Goldens :
    /\ evaluator = "RetrievalEvaluator"
    /\ ev_call' = [op |-> "evaluate", query |-> "q1", retrieved |-> Retrieved(retrieved_ids),
                   generated_answer |-> "answer", golden |-> golden]
    /\ Returns(RetrievalEvaluate("q1", Retrieved(retrieved_ids), "answer", golden))

MetricsInit ==
  /\ EvaluatorInit("RetrievalEvaluator")
  /\ evaluators = <<>>
  /\ weights = <<>>
  /\ ChunkerIdle
  /\ RetrieverIdle
  /\ EmbedderIdle

MetricsNext == RecallAtKCall \/ PrecisionAtKCall \/ MrrCall \/ RetrievalEvaluateCall

SpecMetrics == MetricsInit /\ [][MetricsNext]_vars

\* ---- CompositeEvaluator
MaxEvaluators == 2

MaxWeights == 3

\* the evaluators a composite is built from: each stands for an Evaluator
\* object whose evaluate() returns a result with a score of its own
EvaluatorLists == {[i \in 1..n |-> "e" \o ToString(i)] : n \in 1..MaxEvaluators}

\* the overall_score a member evaluator returns
SubScores == {Float(0), Rat(1, 2), Float(1)}

\* the weights argument; <<>> also stands for weights=None, which
\* `weights or ...` treats alike
WeightLists == UNION {[1..n -> {Float(0), Float(1), Float(2)}] : n \in 0..MaxWeights}

\* CompositeEvaluator.__init__: weights or [1.0] * len(evaluators)
InitWeights(weights_arg, evaluator_list) ==
  IF weights_arg = <<>> THEN [i \in 1..Len(evaluator_list) |-> Float(1)]
  ELSE weights_arg

\* what a member evaluator returns: one retrieval metric under its own name
SubResult(name, score) ==
  EvaluationResult("q1", <<[k |-> name, v |-> score]>>, EmptyDict, score)

\* the number of pairs zip(self.evaluators, self.weights) yields
Zipped(evaluator_list, weight_list) == Min(Len(evaluator_list), Len(weight_list))

\* the loop of CompositeEvaluator.evaluate from the i-th pair on; acc holds
\* all_retrieval_metrics, all_generation_metrics and weighted_scores
RECURSIVE CompositeLoop(_, _, _, _, _)
CompositeLoop(evaluator_list, weight_list, sub_results, i, acc) ==
  IF i > Zipped(evaluator_list, weight_list) THEN acc
  ELSE CompositeLoop(evaluator_list, weight_list, sub_results, i + 1,
         [retrieval |-> DictUpdate(acc.retrieval, sub_results[i].retrieval_metrics),
          generation |-> DictUpdate(acc.generation, sub_results[i].generation_metrics),
          weighted |-> Append(acc.weighted,
                              FloatMul(sub_results[i].overall_score, weight_list[i]))])

\* CompositeEvaluator.evaluate, given the results of the member evaluators:
\* the division raises ZeroDivisionError when the weights sum to 0
CompositeEvaluate(query, evaluator_list, weight_list, sub_results) ==
  LET acc == CompositeLoop(evaluator_list, weight_list, sub_results, 1,
                           [retrieval |-> EmptyDict, generation |-> EmptyDict,
                            weighted |-> <<>>])
      total == FloatSum(weight_list)
  IN IF total = Float(0) THEN Raised("ZeroDivisionError")
     ELSE Returned(EvaluationResult(query, acc.retrieval, acc.generation,
                                    FloatDiv(FloatSum(acc.weighted), total)))

CompositeEvaluateCall ==
  \E scores \in [1..Len(evaluators) -> SubScores] :
    \E sub_results \in {[i \in 1..Len(evaluators) |-> SubResult(evaluators[i], scores[i])]} :
      \E r \in {CompositeEvaluate("q1", evaluators, weights, sub_results)} :
        /\ evaluator = "CompositeEvaluator"
        /\ ev_pc = "ready"
        /\ ev_pc' = "done"
        /\ ev_call' = [op |-> "evaluate", query |-> "q1", sub_results |-> sub_results]
        /\ ev_raised' = r.err
        /\ evaluation' = r.out
        /\ UNCHANGED <<evaluator, evaluators, weights, response, metrics>>
        /\ UNCHANGED <<chunkerVars, retrieverVars, embedderVars>>

CompositeInit ==
  /\ EvaluatorInit("CompositeEvaluator")
  /\ evaluators \in EvaluatorLists
  /\ \E weights_arg \in WeightLists : weights = InitWeights(weights_arg, evaluators)
  /\ ChunkerIdle
  /\ RetrieverIdle
  /\ EmbedderIdle

CompositeNext == CompositeEvaluateCall

SpecComposite == CompositeInit /\ [][CompositeNext]_vars

\* ---- LLMEvaluator
MaxResponseLen == 2

ResponseAlphabet == {"0", "1", "5", ".", "-", " "}

\* what self.llm.generate returns: every text over the alphabet up to the
\* length bound, and a few longer ones
Responses ==
  UNION {[1..n -> ResponseAlphabet] : n \in 0..MaxResponseLen}
  \cup { <<"0", ".", "5">>, <<" ", "1", ".", "0", "\n">>, <<"0", ".", "7", "5">>,
         <<"1", ".", "5">>, <<"n", "a", "n">>, <<"a", "b", "c">>, <<"0", ".", "5", " ", "o", "k">> }

\* str.strip(): without the whitespace at both ends
Strip(text) ==
  LET inked == {i \in 1..Len(text) : text[i] \notin {" ", "\n", "\t"}}
  IN IF inked = {} THEN <<>>
     ELSE SubSeq(text, CHOOSE i \in inked : \A j \in inked : i <= j,
                       CHOOSE i \in inked : \A j \in inked : i >= j)

DigitChars == <<"0", "1", "2", "3", "4", "5", "6", "7", "8", "9">>

\* the int a string of decimal digits denotes, 0 for the empty string
RECURSIVE DigitsValue(_)
DigitsValue(digits) ==
  IF digits = <<>> THEN 0
  ELSE 10 * DigitsValue(SubSeq(digits, 1, Len(digits) - 1))
       + (CHOOSE d \in 0..9 : DigitChars[d + 1] = digits[Len(digits)])

\* float(text) on a stripped text: an optional sign, then nan or decimal
\* digits with at most one point and at least one digit; anything else is a
\* ValueError. (No response here has an exponent, an underscore or "inf".)
ParseFloat(text) ==
  LET signed == text # <<>> /\ text[1] \in {"+", "-"}
      body == IF signed THEN Tail(text) ELSE text
      points == {i \in 1..Len(body) : body[i] = "."}
      digits == SelectSeq(body, LAMBDA c : c # ".")
      fraction == IF points = {} THEN 0 ELSE Len(body) - (CHOOSE i \in points : TRUE)
      magnitude == Rat(DigitsValue(digits),
                       DigitsValue(<<"1">> \o [i \in 1..fraction |-> "0"]))
  IN IF body = <<"n", "a", "n">> THEN [ok |-> TRUE, value |-> NaN]
     ELSE IF \/ digits = <<>>
             \/ Cardinality(points) > 1
             \/ \E i \in 1..Len(digits) : \A d \in 1..10 : DigitChars[d] # digits[i]
          THEN [ok |-> FALSE, value |-> Float(0)]
     ELSE [ok |-> TRUE,
           value |-> IF signed /\ text[1] = "-"
                     THEN Rat(0 - magnitude.num, magnitude.den) ELSE magnitude]

\* _evaluate_faithfulness, _evaluate_relevance, _evaluate_correctness, from
\* the judge's response on: float(response.strip()), 0.0 on ValueError
ScoreOf(text) ==
  LET parsed == ParseFloat(Strip(text))
  IN IF parsed.ok THEN parsed.value ELSE Float(0)

\* LLMEvaluator.evaluate up to its first call of the judge
LLMEvaluateCall ==
  \E golden \in {NoGolden} \cup {g \in GoldenExamples : g.relevant_doc_ids = <<>>} :
    /\ evaluator = "LLMEvaluator"
    /\ ev_pc = "ready"
    /\ ev_pc' = "faithfulness"
    /\ ev_call' = [op |-> "evaluate", query |-> "q1", retrieved |-> <<>>,
                   generated_answer |-> "answer", golden |-> golden]
    /\ metrics' = EmptyDict
    /\ UNCHANGED <<evaluator, evaluators, weights, response, ev_raised, evaluation>>
    /\ UNCHANGED <<chunkerVars, retrieverVars, embedderVars>>

\* one call of the judge and the metric made of its response
Judge(metric, then) ==
  \E text \in Responses :
    /\ evaluator = "LLMEvaluator"
    /\ ev_pc = metric
    /\ response' = text
    /\ metrics' = DictSet(metrics, metric, ScoreOf(text))
    /\ ev_pc' = then
    /\ UNCHANGED <<evaluator, evaluators, weights, ev_call, ev_raised, evaluation>>
    /\ UNCHANGED <<chunkerVars, retrieverVars, embedderVars>>

JudgeFaithfulness == Judge("faithfulness", "relevance")

\* `if golden:` decides whether correctness is judged too
JudgeRelevance ==
  Judge("relevance", IF ev_call.golden # NoGolden THEN "correctness" ELSE "overall")

JudgeCorrectness == Judge("correctness", "overall")

\* overall = sum(metrics.values()) / len(metrics), and the return
LLMReturn ==
  /\ evaluator = "LLMEvaluator"
  /\ ev_pc = "overall"
  /\ ev_pc' = "done"
  /\ evaluation' = EvaluationResult(ev_call.query, EmptyDict, metrics,
                                    FloatDiv(FloatSum(DictValues(metrics)),
                                             Float(Len(metrics))))
  /\ UNCHANGED <<evaluator, evaluators, weights, ev_call, response, metrics, ev_raised>>
  /\ UNCHANGED <<chunkerVars, retrieverVars, embedderVars>>

JudgeInit ==
  /\ EvaluatorInit("LLMEvaluator")
  /\ evaluators = <<>>
  /\ weights = <<>>
  /\ ChunkerIdle
  /\ RetrieverIdle
  /\ EmbedderIdle

JudgeNext ==
  LLMEvaluateCall \/ JudgeFaithfulness \/ JudgeRelevance \/ JudgeCorrectness \/ LLMReturn

SpecJudge == JudgeInit /\ [][JudgeNext]_vars

\* --------------------------------------------------- embedders and batches
MaxBatch == 3

EmbedTexts == {"a", "b"}

Batches == UNION {[1..n -> EmbedTexts] : n \in 0..MaxBatch}

\* base_embedder.embed: one fixed vector per text
BaseEmbed(text) == IF text = "a" THEN <<1, 0>> ELSE <<0, 1>>

\* Embedder.embed_batch, as the base embedder has it: one embed() per text,
\* in input order
EmbedBatch(texts) == [i \in 1..Len(texts) |-> BaseEmbed(texts[i])]

\* CachedEmbedder._cache_key: the SHA-256 hex digest of the text
CacheKey(text) ==
  IF text = "a" THEN "ca978112ca1bbdcafac231b39a23dc4da786eff8147c4e72b9807785afee48bb"
  ELSE "3e23e8160039594a33894f6564e1b1348bbd7a0088d42c4acb73eeaed59c009d"

\* the None of results.append(None), as a vector so that it compares with one
NoEmbedding == <<>>

\* mutant: the place in the list of uncached texts
AppendIndex_OfUncached(uncached_indices, i) ==
  Append(uncached_indices, Len(uncached_indices))

\* uncached_indices.append(i)
AppendIndex(uncached_indices, i) == Append(uncached_indices, i)

\* the first loop of CachedEmbedder.embed_batch from texts[i] on (i 0-based);
\* acc holds results, uncached_texts and uncached_indices
RECURSIVE CacheLookups(_, _, _, _)
CacheLookups(store, texts, i, acc) ==
  IF i >= Len(texts) THEN acc
  ELSE LET text == texts[i + 1]
           key == CacheKey(text)
       IN IF DictHas(store, key)
          THEN CacheLookups(store, texts, i + 1,
                 [acc EXCEPT !.results = Append(@, DictGet(store, key))])
          ELSE CacheLookups(store, texts, i + 1,
                 [results |-> Append(acc.results, NoEmbedding),
                  uncached_texts |-> Append(acc.uncached_texts, text),
                  uncached_indices |-> AppendIndex(acc.uncached_indices, i)])

\* the second loop, over zip(uncached_indices, uncached_texts,
\* new_embeddings) from its j-th triple on; acc holds the cache and results
RECURSIVE CacheFills(_, _, _, _)
CacheFills(found, new_embeddings, j, acc) ==
  IF j > Min(Len(found.uncached_indices), Len(new_embeddings)) THEN acc
  ELSE CacheFills(found, new_embeddings, j + 1,
         [store |-> DictSet(acc.store, CacheKey(found.uncached_texts[j]), new_embeddings[j]),
          results |-> [acc.results EXCEPT ![found.uncached_indices[j] + 1] = new_embeddings[j]]])

\* CachedEmbedder.embed_batch: the cache and the list it leaves, and the
\* calls it makes on the base embedder
CachedEmbedBatch(store, texts) ==
  LET found == CacheLookups(store, texts, 0,
                 [results |-> <<>>, uncached_texts |-> <<>>, uncached_indices |-> <<>>])
  IN IF found.uncached_texts = <<>>
     THEN [store |-> store, results |-> found.results, base_calls |-> <<>>]
     ELSE LET filled == CacheFills(found, EmbedBatch(found.uncached_texts), 1,
                                   [store |-> store, results |-> found.results])
          IN [store |-> filled.store, results |-> filled.results,
              base_calls |-> <<found.uncached_texts>>]

\* CachedEmbedder.embed
CachedEmbed(store, text) ==
  IF DictHas(store, CacheKey(text))
  THEN [store |-> store, results |-> DictGet(store, CacheKey(text)), base_calls |-> <<>>]
  ELSE [store |-> DictSet(store, CacheKey(text), BaseEmbed(text)),
        results |-> BaseEmbed(text), base_calls |-> <<text>>]

\* embed(text) on a CachedEmbedder
EmbedCall ==
  \E text \in EmbedTexts :
    \E r \in {CachedEmbed(cache, text)} :
      /\ embedder = "CachedEmbedder"
      /\ em_call' = [op |-> "embed", text |-> text]
      /\ em_pre' = cache
      /\ cache' = r.store
      /\ base_calls' = r.base_calls
      /\ embedded' = r.results
      /\ UNCHANGED embedder
      /\ UNCHANGED <<chunkerVars, retrieverVars, evaluatorVars>>

\* embed_batch(texts), on a CachedEmbedder or on an Embedder that inherits it
EmbedBatchCall ==
  \E texts \in Batches :
    \E r \in {IF embedder = "CachedEmbedder" THEN CachedEmbedBatch(cache, texts)
              ELSE [store |-> cache, results |-> EmbedBatch(texts), base_calls |-> <<>>]} :
      /\ embedder \in {"Embedder", "CachedEmbedder"}
      /\ em_call' = [op |-> "embed_batch", texts |-> texts]
      /\ em_pre' = cache
      /\ cache' = r.store
      /\ base_calls' = r.base_calls
      /\ embedded' = r.results
      /\ UNCHANGED embedder
      /\ UNCHANGED <<chunkerVars, retrieverVars, evaluatorVars>>

\* the dicts evaluate_batch is given: the second has no 'golden' key
Examples ==
  { [query |-> "q1", retrieved |-> Retrieved(<<"c1", "c2">>), generated_answer |-> "answer",
     golden |-> [query |-> "q1", relevant_doc_ids |-> <<"c2">>,
                 reference_answer |-> "ref", metadata |-> EmptyDict]],
    [query |-> "q2", retrieved |-> Retrieved(<<"c2">>), generated_answer |-> "answer"] }

\* Evaluator.evaluate_batch on a RetrievalEvaluator
EvaluateBatch(examples) ==
  [i \in 1..Len(examples) |->
     LET ex == examples[i]
     IN RetrievalEvaluate(ex.query, ex.retrieved, ex.generated_answer,
                          IF "golden" \in DOMAIN ex THEN ex.golden ELSE NoGolden)]

EvaluateBatchCall ==
  \E n \in 0..MaxBatch :
    \E examples \in [1..n -> Examples] :
      /\ evaluator = "RetrievalEvaluator"
      /\ ev_call' = [op |-> "evaluate_batch", examples |-> examples]
      /\ Returns(EvaluateBatch(examples))

BatchInit ==
  /\ EvaluatorInit("RetrievalEvaluator")
  /\ evaluators = <<>>
  /\ weights = <<>>
  /\ embedder \in {"Embedder", "CachedEmbedder"}
  /\ cache = EmptyDict
  /\ em_call = [op |-> "none"]
  /\ em_pre = EmptyDict
  /\ base_calls = <<>>
  /\ embedded = <<>>
  /\ ChunkerIdle
  /\ RetrieverIdle

BatchNext == EmbedCall \/ EmbedBatchCall \/ EvaluateBatchCall

SpecBatch == BatchInit /\ [][BatchNext]_vars

\* ================================================================ claims
\* ----------------------------------------------------------- chunkers
ValidConfig == 0 <= overlap /\ overlap < chunk_size

InvalidConfig == chunk_size <= 0 \/ overlap >= chunk_size

FixedDone == chunker = "fixed" /\ pc = "done"

RecursiveDone == chunker = "recursive" /\ pc = "done"

\* C1: with chunk_size <= 0 or overlap >= chunk_size, neither chunker ever
\* produces a chunk or returns from chunk(): the configuration is rejected
\* before any chunk exists.
C1_InvalidConfigRejected ==
  InvalidConfig => (chunks = <<>> /\ pc # "done")

\* C2 as written: for len(text) > 0 and 0 <= overlap < chunk_size,
\* FixedSizeChunker.chunk returns ceil((len - overlap) / (chunk_size - overlap))
\* chunks.
C2_CountMinusOverlap ==
  (FixedDone /\ ValidConfig /\ Len(document.text) > 0) =>
    Len(chunks) = CeilDiv(Len(document.text) - overlap, chunk_size - overlap)

\* C2 amended: for len(text) > 0 and 0 <= overlap < chunk_size,
\* FixedSizeChunker.chunk returns ceil(len / (chunk_size - overlap)) chunks.
C2_CountOfWindows ==
  (FixedDone /\ ValidConfig /\ Len(document.text) > 0) =>
    Len(chunks) = CeilDiv(Len(document.text), chunk_size - overlap)

\* a run where the two counts differ: the last window lies inside the overlap
C2_Witness ==
  /\ FixedDone /\ ValidConfig /\ overlap > 0
  /\ Len(document.text) = chunk_size
  /\ Len(chunks) = 2

\* the chunk's text without its first n characters
DropFirst(t, n) == IF n >= Len(t) THEN <<>> ELSE SubSeq(t, n + 1, Len(t))

RECURSIVE ConcatWithoutOverlap(_, _, _)
ConcatWithoutOverlap(cs, i, n) ==
  IF i > Len(cs) THEN <<>>
  ELSE (IF i = 1 THEN cs[i].text ELSE DropFirst(cs[i].text, n))
         \o ConcatWithoutOverlap(cs, i + 1, n)

\* C3: for 0 <= overlap < chunk_size, the first chunk's text followed by each
\* later chunk's text without its first `overlap` characters is the
\* document's text.
C3_Reconstructs ==
  (FixedDone /\ ValidConfig) =>
    ConcatWithoutOverlap(chunks, 1, overlap) = document.text

C3_Witness ==
  /\ FixedDone /\ ValidConfig /\ overlap > 0
  /\ Len(chunks) >= 3
  /\ Len(chunks[Len(chunks)].text) < chunk_size
  /\ ConcatWithoutOverlap(chunks, 1, overlap) = document.text

\* the window starts 0, step, 2*step, ... below len(text)
WindowStarts(len, step) == {s \in 0..(len - 1) : s % step = 0}

\* C4: for 0 <= overlap < chunk_size the chunks are exactly the windows
\* [s, s + chunk_size) for s = 0, step, 2*step, ... < len(text), in order;
\* chunk i has position i, id "{document_id}_chunk_{i}", the window's text and
\* the window's start and end in its metadata; "A. B. C." with chunk_size 4
\* and overlap 1 gives "A. B", "B. C", "C.".
C4_Windows ==
  (FixedDone /\ ValidConfig) =>
    LET text == document.text
        step == chunk_size - overlap
        n == Cardinality(WindowStarts(Len(text), step))
    IN /\ Len(chunks) = n
       /\ \A i \in 0..(n - 1) :
            LET c == chunks[i + 1]
                s == i * step
            IN /\ c.position = i
               /\ c.id = document.id \o "_chunk_" \o ToString(i)
               /\ c.document_id = document.id
               /\ c.text = SubSeq(text, s + 1, Min(s + chunk_size, Len(text)))
               /\ c.metadata.start_char = s
               /\ c.metadata.end_char = s + chunk_size
       /\ (text = ScenarioText /\ chunk_size = 4 /\ overlap = 1) =>
            [k \in 1..Len(chunks) |-> chunks[k].text] =
              << <<"A", ".", " ", "B">>, <<"B", ".", " ", "C">>, <<"C", ".">> >>

C4_Witness ==
  /\ FixedDone /\ document.text = ScenarioText /\ chunk_size = 4 /\ overlap = 1
  /\ Len(chunks) = 3
  /\ chunks[3].id = "d1_chunk_2"
  /\ chunks[3].metadata.start_char = 6

\* C5: for chunk_size > 0 and overlap < chunk_size and any separator list, the
\* chunks RecursiveChunker.chunk returns have positions 0..n-1 in order, id
\* "{document_id}_chunk_{position}", a text of at most chunk_size characters,
\* and no empty text.
C5_RecursiveChunksBounded ==
  (RecursiveDone /\ chunk_size > 0 /\ overlap < chunk_size) =>
    \A i \in 1..Len(chunks) :
      /\ chunks[i].position = i - 1
      /\ chunks[i].id = document.id \o "_chunk_" \o ToString(i - 1)
      /\ Len(chunks[i].text) <= chunk_size
      /\ chunks[i].text # <<>>

\* --------------------------------------------------------- retrievers
\* C6: after any sequence of index, delete and update calls the store holds,
\* for each chunk id, exactly the chunk and the vector of the last index or
\* update of that id not followed by a delete of it, and nothing for any other
\* id; a delete of an id that is not stored raises nothing and changes nothing.
C6_LastWriteWins ==
  /\ DictKeys(idx_chunks) = DOMAIN latest
  /\ DictKeys(idx_embeddings) = DOMAIN latest
  /\ Len(idx_chunks) = Cardinality(DOMAIN latest)
  /\ Len(idx_embeddings) = Cardinality(DOMAIN latest)
  /\ \A i \in 1..Len(idx_chunks) :
       idx_chunks[i].v = latest[idx_chunks[i].k].chunk
  /\ \A i \in 1..Len(idx_embeddings) :
       idx_embeddings[i].v = latest[idx_embeddings[i].k].embedding
  /\ (call.op = "delete" /\ ~DictHas(pre.chunks, call.chunk_id)) =>
       (raised = "none" /\ Store = pre)

\* an index call that overwrote another chunk and vector under the same id,
\* with a second id stored
C6_Witness ==
  /\ call.op = "index"
  /\ DictHas(pre.chunks, call.chunk.id)
  /\ DictGet(pre.chunks, call.chunk.id) # call.chunk
  /\ DictGet(pre.embeddings, call.chunk.id) # call.embedding
  /\ Len(idx_chunks) = 2
  /\ DictGet(idx_chunks, call.chunk.id) = call.chunk
  /\ DictGet(idx_embeddings, call.chunk.id) = call.embedding

\* a chunk satisfies the filters: every filter key is in its metadata with
\* the filter's value
Satisfies(chunk, filters) ==
  \A key \in DOMAIN filters :
    key \in DOMAIN chunk.metadata /\ chunk.metadata[key] = filters[key]

\* x >= y on floats
ScoreGe(x, y) == ~IsNaN(x) /\ ~IsNaN(y) /\ x.num * y.den >= y.num * x.den

\* C7: search returns min(top_k, m) results, m the number of stored chunks
\* that satisfy the filters; they are the highest-scoring of those chunks, in
\* non-increasing score order, and the result at list index i has rank i + 1.
C7_TopKByScore ==
  (call.op = "search") =>
    LET q == call.query_embedding
        matching == {i \in 1..Len(pre.chunks) : Satisfies(pre.chunks[i].v, call.filters)}
        shown == {result[i].chunk.id : i \in 1..Len(result)}
    IN /\ raised = "none"
       /\ Len(result) = Min(call.top_k, Cardinality(matching))
       /\ \A i \in 1..Len(result) : result[i].rank = i
       /\ \A i \in 1..Len(result) :
            \E j \in matching :
              /\ result[i].chunk = pre.chunks[j].v
              /\ result[i].score = Similarity(q, DictGet(pre.embeddings, pre.chunks[j].k))
       /\ \A i \in 1..(Len(result) - 1) : ScoreGe(result[i].score, result[i + 1].score)
       /\ \A i \in 1..Len(result) :
            \A j \in matching :
              pre.chunks[j].k \notin shown =>
                ScoreGe(result[i].score,
                        Similarity(q, DictGet(pre.embeddings, pre.chunks[j].k)))

\* C8: every chunk a filtered search returns has every filter key in its
\* metadata with the filter's value; a chunk that lacks a filter key is never
\* returned.
C8_OnlyMatchingReturned ==
  (call.op = "search" /\ raised = "none") =>
    \A i \in 1..Len(result) :
      \A key \in DOMAIN call.filters :
        /\ key \in DOMAIN result[i].chunk.metadata
        /\ result[i].chunk.metadata[key] = call.filters[key]

\* the answers of a store to every query
Answers(store) ==
  [a \in Queries \X (0..MaxTopK) \X FilterSets |->
     InMemorySearch(store, a[1], a[2], a[3])]

\* C9: an update of (chunk, vec) repeated right away leaves the same stored
\* associations and the same answer to every query as the first one, and
\* update(chunk, vec) leaves what delete(chunk.id) followed by
\* index(chunk, vec) leaves.
C9_UpdateIdempotent ==
  (call.op = "update") =>
    LET again == UpdateOn(retriever, Store, call.chunk, call.embedding)
    IN /\ raised = "none"
       /\ again.raised = "none"
       /\ again.store = Store
       /\ Answers(again.store) = Answers(Store)
       /\ Store = InMemoryIndex(InMemoryDelete(pre, call.chunk.id),
                                call.chunk, call.embedding)

\* an update of a stored id that is not the last key, with another chunk and
\* vector than stored, while two chunks tie on score for some query
C9_Witness ==
  /\ call.op = "update"
  /\ Len(pre.chunks) = 2
  /\ pre.chunks[1].k = call.chunk.id
  /\ pre.chunks[1].v # call.chunk
  /\ pre.embeddings[1].v # call.embedding
  /\ idx_chunks[2].k = call.chunk.id
  /\ idx_embeddings[1].v = idx_embeddings[2].v

\* C10: index, delete and update on a RerankedRetriever leave the base store
\* as the same calls made on it directly do, and raise nothing.
C10_WrapperDelegates ==
  (retriever = "RerankedRetriever") => (Store = direct /\ raised = "none")

\* the float 0.0
Zero == [num |-> 0, den |-> 1]

\* C11: when the query vector or a stored vector has zero norm, search
\* completes and gives that pair the score 0.
C11_ZeroNormScoresZero ==
  (call.op = "search" /\ raised = "none") =>
    \A i \in 1..Len(result) :
      LET doc_vec == DictGet(pre.embeddings, result[i].chunk.id)
      IN (Norm(call.query_embedding) = 0 \/ Norm(doc_vec) = 0) =>
           result[i].score = Zero

\* C12: the vectors stored in one InMemoryRetriever all have one length: an
\* index or update with a vector of another length than the vectors stored
\* under the other ids raises and leaves the store as it was.
C12_OneDimension ==
  /\ \A i, j \in 1..Len(idx_embeddings) :
       Len(idx_embeddings[i].v) = Len(idx_embeddings[j].v)
  /\ (/\ call.op \in {"index", "update"}
      /\ \E i \in 1..Len(pre.embeddings) :
           /\ pre.embeddings[i].k # call.chunk.id
           /\ Len(pre.embeddings[i].v) # Len(call.embedding)) =>
       (raised # "none" /\ Store = pre)

\* the store index(chunk, embedding) leaves and the store update(chunk,
\* embedding) leaves, both from the store before the last call
AfterIndex == InMemoryIndex(pre, call.chunk, call.embedding)

AfterUpdate == UpdateOn("InMemoryRetriever", pre, call.chunk, call.embedding).store

\* the two stores hold the same chunk and vector under the same ids
SameAssociations(s, t) ==
  /\ Len(s.chunks) = Len(t.chunks)
  /\ Len(s.embeddings) = Len(t.embeddings)
  /\ DictKeys(s.chunks) = DictKeys(t.chunks)
  /\ DictKeys(s.embeddings) = DictKeys(t.embeddings)
  /\ \A key \in DictKeys(s.chunks) : DictGet(s.chunks, key) = DictGet(t.chunks, key)
  /\ \A key \in DictKeys(s.embeddings) :
       DictGet(s.embeddings, key) = DictGet(t.embeddings, key)

\* the scores search gives the scanned vectors are pairwise different and
\* none is nan
StrictlyOrdered(store, query_embedding, filters) ==
  LET scanned == Scanned(store, filters)
  IN /\ \A i \in 1..Len(scanned) : Len(scanned[i].v) = Len(query_embedding)
     /\ \A i, j \in 1..Len(scanned) :
          (i # j) =>
            LET x == Similarity(query_embedding, scanned[i].v)
                y == Similarity(query_embedding, scanned[j].v)
            IN ScoreLt(x, y) \/ ScoreLt(y, x)

\* C20 as stated: after index(c, v) and after update(c, v) every query has the
\* same result list, ties and an already stored c.id included.
C20_IndexLikeUpdate ==
  (call.op \in {"index", "update"}) => Answers(AfterIndex) = Answers(AfterUpdate)

\* C20: index(c, v) and update(c, v) leave stores with the same chunk and
\* vector under every id, and a query has the same result list after either
\* call when c.id was not stored before or the scores of the chunks it scans
\* are pairwise different numbers.
C20_IndexLikeUpdateUpToTies ==
  (call.op \in {"index", "update"}) =>
    /\ Store = (IF call.op = "index" THEN AfterIndex ELSE AfterUpdate)
    /\ SameAssociations(AfterIndex, AfterUpdate)
    /\ ~DictHas(pre.chunks, call.chunk.id) => AfterIndex = AfterUpdate
    /\ \A q \in Queries, top_k \in 0..MaxTopK, filters \in FilterSets :
         (\/ ~DictHas(pre.chunks, call.chunk.id)
          \/ StrictlyOrdered(AfterIndex, q, filters)) =>
           InMemorySearch(AfterIndex, q, top_k, filters) =
             InMemorySearch(AfterUpdate, q, top_k, filters)

\* an index of a stored id that is not the last key, with another vector than
\* stored: the key order differs from the one update leaves, and some query
\* scans both chunks and scores them differently
C20_Witness ==
  /\ call.op = "index"
  /\ Len(pre.chunks) = 2
  /\ pre.chunks[1].k = call.chunk.id
  /\ pre.embeddings[1].v # call.embedding
  /\ AfterIndex # AfterUpdate
  /\ \E q \in Queries :
       /\ Len(Scanned(Store, EmptyDict)) = 2
       /\ StrictlyOrdered(Store, q, EmptyDict)

\* the candidate list the over-fetch of the last wrapper search got
Candidates ==
  InMemorySearch(pre, call.query_embedding, call.top_k * k_multiplier, call.filters).out

\* the last call was a search on the wrapper that took the early return
EarlyCase ==
  /\ retriever = "RerankedRetriever"
  /\ call.op = "search"
  /\ (call.query_text \in {None, ""} \/ Candidates = <<>>)

\* the last call was a search on the wrapper that went through the reranker
RerankCase ==
  /\ retriever = "RerankedRetriever"
  /\ call.op = "search"
  /\ call.query_text \notin {None, ""}
  /\ Candidates # <<>>

\* C13: without a query text, or without candidates, the wrapper's search
\* returns the list the base store's search returns for the same query,
\* top_k and filters, and the reranker is not called.
C13_EarlyReturnIsBaseSearch ==
  EarlyCase =>
    LET base == InMemorySearch(pre, call.query_embedding, call.top_k, call.filters)
    IN /\ raised = base.err
       /\ result = base.out
       /\ \A i \in 1..Len(outgoing) : outgoing[i].to # "reranker.rerank"

\* a search without query text that asked the base store for more candidates
\* than top_k, got two and returned the first
C13_Witness ==
  /\ EarlyCase
  /\ call.query_text = None
  /\ call.top_k = 1
  /\ outgoing[1].top_k > 1
  /\ Len(Candidates) = 2
  /\ Len(result) = 1
  /\ result[1] = Candidates[1]

\* C14: with a query text and candidates, the wrapper asks the base store for
\* top_k * k_multiplier candidates, hands their texts in candidate order to
\* the reranker with top_k, and returns at most top_k results: result i has
\* rank i + 1, the score of the reranker's i-th entry and the chunk of the
\* candidate at that entry's index.
C14_RerankedRemapped ==
  RerankCase =>
    /\ raised = "none"
    /\ Len(outgoing) = 2
    /\ outgoing[1] = BaseCall(call.query_embedding, call.top_k * k_multiplier,
                              call.filters, Returned(Candidates))
    /\ outgoing[2].to = "reranker.rerank"
    /\ outgoing[2].query = call.query_text
    /\ outgoing[2].top_k = call.top_k
    /\ outgoing[2].documents = [i \in 1..Len(Candidates) |-> Candidates[i].chunk.text]
    /\ Len(result) <= call.top_k
    /\ Len(result) = Len(outgoing[2].returned)
    /\ \A i \in 1..Len(result) :
         LET entry == outgoing[2].returned[i]
         IN /\ result[i].rank = i
            /\ result[i].score = entry.score
            /\ result[i].chunk = Candidates[entry.index + 1].chunk

\* k_multiplier = 3 and top_k = 2: six candidates asked for, two found, and
\* the reranker returned them in the other order
C14_Witness ==
  /\ RerankCase
  /\ k_multiplier = 3
  /\ call.top_k = 2
  /\ outgoing[1].top_k = 6
  /\ Len(Candidates) = 2
  /\ Len(result) = 2
  /\ outgoing[2].returned[1].index = 1
  /\ outgoing[2].returned[2].index = 0
  /\ result[1].chunk = Candidates[2].chunk
  /\ result[1].chunk.text # result[2].chunk.text

\* the chunk text c occurs in text at the 0-based offset o
Occurs(text, c, o) ==
  o + Len(c) <= Len(text) /\ SubSeq(text, o + 1, o + Len(c)) = c

\* the characters two neighbouring chunks may share: overlap where the
\* separator list ends in the character-level split, none elsewhere
SharedChars ==
  IF \E k \in 1..Len(separators) : separators[k] = <<>> THEN Max(overlap, 0) ELSE 0

\* the chunks from list[i] on occur in text one after the other: each starts
\* no earlier than the one before it (at prevStart) and no more than
\* SharedChars before the end of the one before it (prevEnd)
RECURSIVE InDocumentOrder(_, _, _, _, _)
InDocumentOrder(text, list, i, prevStart, prevEnd) ==
  IF i > Len(list) THEN TRUE
  ELSE \E o \in Max(prevStart, prevEnd - SharedChars)..Len(text) :
         /\ Occurs(text, list[i].text, o)
         /\ InDocumentOrder(text, list, i + 1, o, o + Len(list[i].text))

\* C19: the chunks RecursiveChunker.chunk returns occur in the document from
\* left to right, each starting at or after the start of the one before it,
\* and two neighbours share text only as far as the overlap of the
\* character-level split re-includes it.
C19_LeftToRight ==
  RecursiveDone => InDocumentOrder(document.text, chunks, 1, 0, 0)

\* a separator split whose second part went through the character-level
\* split: three chunks with different texts, the last two sharing a character
C19_Witness ==
  /\ RecursiveDone
  /\ ValidConfig
  /\ overlap > 0
  /\ Len(chunks) = 3
  /\ chunks[1].text # chunks[2].text
  /\ chunks[2].text # chunks[3].text
  /\ chunks[2].text[Len(chunks[2].text)] = chunks[3].text[1]
  /\ \E k \in 1..Len(document.text) : document.text[k] = " "

\* x <= y on floats
FloatLe(x, y) == ~IsNaN(x) /\ ~IsNaN(y) /\ x.num * y.den <= y.num * x.den

\* the float is in [0, 1]
InUnitInterval(x) == FloatLe(Float(0), x) /\ FloatLe(x, Float(1))

\* C15: for a non-empty relevant set and any retrieved list, recall@k does not
\* decrease when k grows, precision@k is in [0,1] for every k >= 0, mrr is in
\* [0,1], and mrr is 1.0 exactly when the first retrieved id is relevant; the
\* metrics evaluate() reports obey the same.
C15_MetricRanges ==
  /\ (ev_call.op = "_recall_at_k" /\ ev_call.relevant_ids # {}) =>
       /\ InUnitInterval(evaluation)
       /\ \A k \in 0..ev_call.k :
            FloatLe(RecallAtK(ev_call.retrieved_ids, ev_call.relevant_ids, k), evaluation)
       /\ FloatLe(evaluation,
                  RecallAtK(ev_call.retrieved_ids, ev_call.relevant_ids, ev_call.k + 1))
  /\ (ev_call.op = "_precision_at_k" /\ ev_call.relevant_ids # {}) =>
       InUnitInterval(evaluation)
  /\ (ev_call.op = "_mrr" /\ ev_call.relevant_ids # {}) =>
       /\ InUnitInterval(evaluation)
       /\ (evaluation = Float(1)) <=>
            (ev_call.retrieved_ids # <<>> /\ ev_call.retrieved_ids[1] \in ev_call.relevant_ids)
  /\ (/\ evaluator = "RetrievalEvaluator"
      /\ ev_call.op = "evaluate"
      /\ ev_call.golden # NoGolden
      /\ ev_call.golden.relevant_doc_ids # <<>>) =>
       LET m == evaluation.retrieval_metrics
       IN /\ DictKeys(m) = {"recall@5", "recall@10", "precision@5", "mrr"}
          /\ FloatLe(DictGet(m, "recall@5"), DictGet(m, "recall@10"))
          /\ InUnitInterval(DictGet(m, "precision@5"))
          /\ InUnitInterval(DictGet(m, "mrr"))
          /\ (DictGet(m, "mrr") = Float(1)) <=>
               (ev_call.retrieved # <<>>
                /\ ev_call.retrieved[1].chunk.id \in ToSet(ev_call.golden.relevant_doc_ids))

\* an evaluate() on a list that repeats its relevant first id: mrr is 1,
\* precision@5 counts the repeated id once, and recall@10 is above recall@5
C15_Witness ==
  /\ evaluator = "RetrievalEvaluator"
  /\ ev_call.op = "evaluate"
  /\ ev_call.golden # NoGolden
  /\ ToSet(ev_call.golden.relevant_doc_ids) = {"c1", "c2"}
  /\ Len(ev_call.retrieved) = 6
  /\ ev_call.retrieved[1].chunk.id = "c1"
  /\ ev_call.retrieved[2].chunk.id = "c1"
  /\ DictGet(evaluation.retrieval_metrics, "mrr") = Float(1)
  /\ DictGet(evaluation.retrieval_metrics, "precision@5") = Rat(1, 5)
  /\ DictGet(evaluation.retrieval_metrics, "recall@5") = Rat(1, 2)
  /\ DictGet(evaluation.retrieval_metrics, "recall@10") = Float(1)


\* the scores of the member evaluators that have a weight, times their
\* weights, and those weights
AppliedScores ==
  [i \in 1..Min(Len(evaluators), Len(weights)) |->
     FloatMul(ev_call.sub_results[i].overall_score, weights[i])]

AppliedWeights == SubSeq(weights, 1, Min(Len(evaluators), Len(weights)))

\* C16: CompositeEvaluator.evaluate returns the weighted average of the
\* members' overall scores, normalized by the sum of the weights applied, and
\* returns s when every member returns s, whatever the weight list (the
\* weights applied not summing to 0, so that the average is defined).
C16_WeightedAverage ==
  (/\ evaluator = "CompositeEvaluator"
   /\ ev_call.op = "evaluate"
   /\ FloatSum(AppliedWeights) # Float(0)) =>
    /\ ev_raised = "none"
    /\ FloatMul(evaluation.overall_score, FloatSum(AppliedWeights)) = FloatSum(AppliedScores)
    /\ \A s \in SubScores :
         (\A i \in 1..Len(evaluators) : ev_call.sub_results[i].overall_score = s) =>
           evaluation.overall_score = s

\* C17: whatever text the judge returns, every generation metric of
\* LLMEvaluator is a number in [0,1], no exception comes out, and a response
\* that is not a number gives the metric 0.
C17_JudgeScoresInUnitInterval ==
  (evaluator = "LLMEvaluator") =>
    /\ ev_raised = "none"
    /\ \A i \in 1..Len(metrics) : InUnitInterval(metrics[i].v)
    /\ (metrics # <<>> /\ ~ParseFloat(Strip(response)).ok) =>
         metrics[Len(metrics)].v = Float(0)

\* C18: embed_batch returns one embedding per text, at index i the embedding
\* of texts[i], whatever the batch repeats and whatever the cache held, and
\* evaluate_batch returns one result per example, at index i the result of
\* evaluating examples[i].
C18_BatchKeepsInputOrder ==
  /\ (em_call.op = "embed_batch") =>
       /\ Len(embedded) = Len(em_call.texts)
       /\ \A i \in 1..Len(em_call.texts) : embedded[i] = BaseEmbed(em_call.texts[i])
  /\ (ev_call.op = "evaluate_batch") =>
       /\ Len(evaluation) = Len(ev_call.examples)
       /\ \A i \in 1..Len(ev_call.examples) :
            LET ex == ev_call.examples[i]
            IN /\ evaluation[i].query = ex.query
               /\ evaluation[i] =
                    RetrievalEvaluate(ex.query, ex.retrieved, ex.generated_answer,
                                      IF "golden" \in DOMAIN ex THEN ex.golden ELSE NoGolden)

\* a batch "a", "b", "a" on a CachedEmbedder whose cache held "b" only: both
\* "a" went to the base embedder in one call, and an evaluate_batch of two
\* different examples has returned
C18_Witness ==
  /\ embedder = "CachedEmbedder"
  /\ em_call.op = "embed_batch"
  /\ em_call.texts = <<"a", "b", "a">>
  /\ DictKeys(em_pre) = {CacheKey("b")}
  /\ base_calls = << <<"a", "a">> >>
  /\ embedded = <<BaseEmbed("a"), BaseEmbed("b"), BaseEmbed("a")>>
  /\ DictKeys(cache) = {CacheKey("a"), CacheKey("b")}
  /\ ev_call.op = "evaluate_batch"
  /\ Len(evaluation) = 2
  /\ evaluation[1].query # evaluation[2].query
====
